---- MODULE Spec2Model ----
(***************************************************************************)
(* Maryland Vector Hotspot Explorer (src/app.py).                          *)
(*                                                                         *)
(* The program is a Streamlit script: every user interaction re-executes   *)
(* the whole script from top to bottom (one "script pass").  The only      *)
(* state that survives a pass is the widgets' values and st.session_state. *)
(* Each action below is one script pass, triggered by one interaction.     *)
(*                                                                         *)
(* Data frames are modelled as bags (multisets) of rows, tables produced   *)
(* by groupby(...).size().reset_index(...) as sets of rows.  A Python      *)
(* value that may be None / not yet computed is an Option: <<>> for None,  *)
(* <<v>> for the value v.  A Risk Score, which the code rounds to two      *)
(* decimals, is held in hundredths (100 is 1.00).                          *)
(***************************************************************************)
EXTENDS Integers, Sequences, FiniteSets, Bags, TLC

VARIABLES
    selected_species,   \* st.sidebar.selectbox value
    show_monthly,       \* st.sidebar.checkbox "Show Monthly Time Series"
    compare_counties,   \* st.sidebar.checkbox "Compare Counties"
    session_state,      \* st.session_state: gdf_joined, county_selection
    county_options,     \* Option: the options of the county selector, if built
    county_selection,   \* the script-local county_selection of the last pass
    status,             \* how the last script pass ended
    calls,              \* external fetch calls made by the last pass, in order
    messages,           \* st.info / st.error / st.warning / ... of the last pass
    df_occ,             \* Option: the cleaned occurrence frame of the last pass
    gdf_joined,         \* Option: the joined frame of the last pass
    county_counts,      \* Option: the (county, species) aggregate table
    merged,             \* Option: the map table
    monthly_counts,     \* Option: the monthly bucket table
    annual_counts       \* Option: the annual bucket table

vars == <<selected_species, show_monthly, compare_counties,
          session_state, county_options, county_selection, status, calls, messages,
          df_occ, gdf_joined, county_counts, merged, monthly_counts,
          annual_counts>>

----------------------------------------------------------------------------
(* Bounds of the model *)

\* most rows one fetch returns in the session specification
MaxRecs == 2

\* most rows one fetch returns in the scoring specification
MaxScoreRecs == 8

----------------------------------------------------------------------------
(* Values *)

None == <<>>
Some(v) == <<v>>
Get(o) == o[1]
IsNone(o) == o = <<>>

\* a missing number (pandas NaN) in a year or month column
NaN == -1

\* where a point that lies in no county polygon is
Outside == "(outside)"

species_list == {"Rattus norvegicus", "Aedes aegypti", "Aedes albopictus"}

DefaultSpecies == "Rattus norvegicus"

\* NAME_2 of the polygons of md_counties.geojson
CountyNames == {"Allegany", "Baltimore", "Calvert"}

----------------------------------------------------------------------------
(* Data frames as bags of rows *)

RECURSIVE SumOver(_, _)
\* the sum of B[r] over the rows r of S
SumOver(S, B) ==
    IF S = {} THEN 0
    ELSE LET r == CHOOSE x \in S : TRUE
         IN  B[r] + SumOver(S \ {r}, B)

\* len(df)
Rows(B) == SumOver(DOMAIN B, B)

\* df[cond]: the rows of B that are in keep, with their multiplicities
Filter(B, keep) == [r \in keep \cap DOMAIN B |-> B[r]]

\* the frame with every row r replaced by f[r]
MapRows(B, f) ==
    [y \in {f[r] : r \in DOMAIN B} |->
        SumOver({r \in DOMAIN B : f[r] = y}, B)]

\* df.groupby(keys).size(): the number of rows under each key observed,
\* key[r] being the key of row r
GroupSize(B, key) == MapRows(B, key)

RECURSIVE BagsUpTo(_, _)
\* the bags of at most n rows drawn from the set U
BagsUpTo(U, n) ==
    IF n = 0 THEN {EmptyBag}
    ELSE LET Smaller == BagsUpTo(U, n - 1)
         IN  Smaller \cup {b (+) SetToBag({r}) : b \in Smaller, r \in U}

----------------------------------------------------------------------------
(* The external collaborators *)

\* The occurrence records the fetch draws from in the session specification.
\* loc is the place of the record's point: the county whose polygon holds
\* it, or Outside.
OccurrenceUniverse ==
    { [loc |-> "Allegany",  year |-> 2020, month |-> 6],
      [loc |-> "Baltimore", year |-> 2021, month |-> 6],
      [loc |-> "Calvert",   year |-> 2020, month |-> 6],
      [loc |-> Outside,     year |-> 2020, month |-> 6],
      [loc |-> "Baltimore", year |-> NaN,  month |-> 6] }

\* The occurrence records of the scoring specification: one bucket, any county.
ScoreUniverse == { [loc |-> c, year |-> 2020, month |-> 6] : c \in CountyNames }

\* What fetch_occurrences_for_taxon can return.  The year range of the
\* slider (year_range) only parameterises this external call, so the model
\* does not keep it.
FetchResults == BagsUpTo(OccurrenceUniverse, MaxRecs)

ScoreFetchResults == BagsUpTo(ScoreUniverse, MaxScoreRecs)

\* assign_to_counties(df_occ): one row per occurrence whose point lies in a
\* county, annotated with the county's NAME_2; the others are dropped.
assign_to_counties(df) ==
    LET matched == Filter(df, {r \in DOMAIN df : r.loc \in CountyNames})
    IN  MapRows(matched,
                [r \in DOMAIN matched |->
                    [NAME_2 |-> r.loc, loc |-> r.loc,
                     year |-> r.year, month |-> r.month,
                     year_month |-> r.year_month,
                     queried_scientificName |-> r.queried_scientificName]])

----------------------------------------------------------------------------
(* Run Analysis: the pipeline *)

\* df_occ["queried_scientificName"] = selected_species; dropna(year, month);
\* year_month = to_datetime(year, month, day = 1)
Clean(raw, species) ==
    LET dated == Filter(raw, {r \in DOMAIN raw : r.year # NaN /\ r.month # NaN})
    IN  MapRows(dated,
                [r \in DOMAIN dated |->
                    [loc |-> r.loc, year |-> r.year, month |-> r.month,
                     year_month |-> <<r.year, r.month>>,
                     queried_scientificName |-> species]])

\* np.log1p in millionths, for the counts 0 .. 12
Log1pMicro ==
    << 0, 693147, 1098612, 1386294, 1609438, 1791759, 1945910, 2079442,
       2197225, 2302585, 2397895, 2484907, 2564949 >>

log1p(c) == Log1pMicro[c + 1]

RECURSIVE MinOf(_)
\* Series.min() where the code calls Series.max()
MinOf(S) ==
    LET x == CHOOSE y \in S : TRUE
    IN  IF S \ {x} = {} THEN x
        ELSE LET m == MinOf(S \ {x}) IN IF x < m THEN x ELSE m

RECURSIVE MaxOf(_)
\* Series.max()
MaxOf(S) ==
    LET x == CHOOSE y \in S : TRUE
    IN  IF S \ {x} = {} THEN x
        ELSE LET m == MaxOf(S \ {x}) IN IF x > m THEN x ELSE m

\* the division with its operands exchanged: max / raw
NormalizeSwapped(raw, max) == (200 * max + raw) \div (2 * raw)

\* (raw / max).round(2), in hundredths
Normalize(raw, max) == (200 * raw + max) \div (2 * max)

\* occurrence_count.apply(np.log1p), /= .max(), .round(2)
RiskScore(count, counts) == Normalize(log1p(count), MaxOf({log1p(c) : c \in counts}))

\* the groups sized by their distinct rows (nunique) instead of their rows
CountyGroupsDistinct(joined) ==
    LET Key(r) == [NAME_2 |-> r.NAME_2,
                   queried_scientificName |-> r.queried_scientificName]
    IN  [k \in {Key(r) : r \in DOMAIN joined} |->
            Cardinality({r \in DOMAIN joined : Key(r) = k})]

\* gdf_joined.groupby(["NAME_2", "queried_scientificName"]).size()
\* (groupby leaves out the rows that have no value in a key column)
CountyGroups(joined) ==
    LET keyed == Filter(joined, {r \in DOMAIN joined : r.NAME_2 \in CountyNames})
    IN  GroupSize(keyed,
                  [r \in DOMAIN keyed |->
                      [NAME_2 |-> r.NAME_2,
                       queried_scientificName |-> r.queried_scientificName]])

\* the aggregate table with its Risk Score column
CountyCounts(joined) ==
    LET g == CountyGroups(joined)
        counts == {g[k] : k \in DOMAIN g}
    IN  { [NAME_2 |-> k.NAME_2,
           queried_scientificName |-> k.queried_scientificName,
           occurrence_count |-> g[k],
           RiskScore |-> RiskScore(g[k], counts)] : k \in DOMAIN g }

\* the merge as an inner join: counties without an aggregate row are dropped
MergedInner(cc) == cc

\* county_geo.merge(county_counts, on="NAME_2", how="left").fillna({...: 0})
Merged(cc) ==
    UNION { IF \E row \in cc : row.NAME_2 = c
            THEN {row \in cc : row.NAME_2 = c}
            ELSE {[NAME_2 |-> c, queried_scientificName |-> "NaN",
                   occurrence_count |-> 0, RiskScore |-> 0]}
          : c \in CountyNames }

\* compare_counties and len(county_selection) == 2
Comparing(compare, selection) == compare /\ Cardinality(selection) = 2

\* the comparison frame without the isin filter
OfAllCounties(joined, selection) == joined

\* gdf_joined[gdf_joined["NAME_2"].isin(county_selection)]
OfCounties(joined, selection) ==
    Filter(joined, {r \in DOMAIN joined : r.NAME_2 \in selection})

\* monthly_counts.  Every month of the model is a valid one, so that
\* to_datetime(..., errors="coerce") leaves no year_month empty.
MonthlyCounts(df, joined, compare, selection) ==
    IF Comparing(compare, selection)
    THEN LET two == OfCounties(joined, selection)
             g == GroupSize(two,
                     [r \in DOMAIN two |->
                         [year_month |-> r.year_month,
                          queried_scientificName |-> r.queried_scientificName,
                          NAME_2 |-> r.NAME_2]])
         IN  { [year_month |-> k.year_month,
                queried_scientificName |-> k.queried_scientificName,
                NAME_2 |-> k.NAME_2, count |-> g[k]] : k \in DOMAIN g }
    ELSE LET g == GroupSize(df,
                     [r \in DOMAIN df |->
                         [year_month |-> r.year_month,
                          queried_scientificName |-> r.queried_scientificName]])
         IN  { [year_month |-> k.year_month,
                queried_scientificName |-> k.queried_scientificName,
                count |-> g[k]] : k \in DOMAIN g }

\* annual_counts
AnnualCounts(df, joined, compare, selection) ==
    IF Comparing(compare, selection)
    THEN LET two == OfCounties(joined, selection)
             g == GroupSize(two,
                     [r \in DOMAIN two |->
                         [year |-> r.year, NAME_2 |-> r.NAME_2]])
         IN  { [year |-> k.year, NAME_2 |-> k.NAME_2, count |-> g[k]]
               : k \in DOMAIN g }
    ELSE LET g == GroupSize(df,
                     [r \in DOMAIN df |->
                         [year |-> r.year,
                          queried_scientificName |-> r.queried_scientificName]])
         IN  { [year |-> k.year,
                queried_scientificName |-> k.queried_scientificName,
                count |-> g[k]] : k \in DOMAIN g }

----------------------------------------------------------------------------
(* One script pass *)

Msg(kind, species, error, n) ==
    [kind |-> kind, species |-> species, error |-> error, n |-> n]

\* sorted(st.session_state.gdf_joined["NAME_2"].dropna().unique()), as a set;
\* a joined row always has a county, so dropna() removes nothing
CountyOptions(ss) == {r.NAME_2 : r \in DOMAIN Get(ss.gdf_joined)}

\* The county selector is built: comparison is on and a snapshot is stored.
SelectorBuilt(compare, ss) == compare /\ ~IsNone(ss.gdf_joined)

\* st.sidebar.multiselect raises when a default is not one of its options.
SelectorRaises(compare, ss) ==
    /\ SelectorBuilt(compare, ss)
    /\ ~(ss.county_selection \subseteq CountyOptions(ss))

\* What st.sidebar.multiselect(options, max_selections=2, default) may return
\* in a pass the user's pick triggered: a pick of at most two options.  The
\* selection is kept as a set: the code reads it through len() and isin().
Picks(options) == {p \in SUBSET options : Cardinality(p) <= 2}

\* the selector built without default=st.session_state.county_selection
SidebarSelectionNoDefault(compare, ss, pick) ==
    IF SelectorBuilt(compare, ss) /\ ~IsNone(pick) THEN Get(pick) ELSE {}

\* county_selection after the sidebar.  pick is None in a pass some other
\* widget triggered: the selector then returns its default.
SidebarSelection(compare, ss, pick) ==
    IF SelectorBuilt(compare, ss)
    THEN IF IsNone(pick) THEN ss.county_selection ELSE Get(pick)
    ELSE {}

\* st.session_state after the sidebar
SidebarState(compare, ss, pick) ==
    IF SelectorBuilt(compare, ss)
    THEN [ss EXCEPT !.county_selection = SidebarSelection(compare, ss, pick)]
    ELSE ss

\* the sidebar without its prompt
SidebarSilent(compare, ss) == <<>>

SidebarMessages(compare, ss) ==
    IF compare /\ IsNone(ss.gdf_joined)
    THEN <<Msg("sidebar.info", "", "", 0)>>
    ELSE <<>>

NoOutputs ==
    /\ df_occ' = None
    /\ gdf_joined' = None
    /\ county_counts' = None
    /\ merged' = None
    /\ monthly_counts' = None
    /\ annual_counts' = None

\* The sidebar of a pass run with the widget values (species, monthly,
\* compare) and the selector returning pick.
Sidebar(species, monthly, compare, pick) ==
    /\ selected_species' = species
    /\ show_monthly' = monthly
    /\ compare_counties' = compare
    /\ county_options' = IF SelectorBuilt(compare, session_state)
                         THEN Some(CountyOptions(session_state))
                         ELSE None
    /\ county_selection' =
           IF SelectorRaises(compare, session_state) THEN {}
           ELSE SidebarSelection(compare, session_state, pick)

\* A pass in which the Run Analysis button is not pressed, or that the
\* selector's exception ends before the button.
PassWithoutRun(species, monthly, compare, pick) ==
    /\ Sidebar(species, monthly, compare, pick)
    /\ IF SelectorRaises(compare, session_state)
       THEN /\ session_state' = session_state
            /\ status' = "widget_error"
            /\ messages' = <<Msg("exception", "", "multiselect default", 0)>>
       ELSE /\ session_state' = SidebarState(compare, session_state, pick)
            /\ status' = "idle"
            /\ messages' = SidebarMessages(compare, session_state)
    /\ calls' = <<>>
    /\ NoOutputs

----------------------------------------------------------------------------
(* The interactions *)

SelectSpecies(s) ==
    /\ s # selected_species
    /\ PassWithoutRun(s, show_monthly, compare_counties, None)

\* Moving the year slider re-runs the script; the new range is read only by
\* the fetch of a later run.
SlideYearRange ==
    PassWithoutRun(selected_species, show_monthly, compare_counties, None)

ToggleShowMonthly ==
    PassWithoutRun(selected_species, ~show_monthly, compare_counties, None)

ToggleCompareCounties ==
    PassWithoutRun(selected_species, show_monthly, ~compare_counties, None)

\* The user changes the county selector, which the last pass has built.
SelectCounties(pick) ==
    /\ status # "widget_error"
    /\ ~IsNone(county_options)
    /\ pick \in Picks(CountyOptions(session_state))
    /\ pick # session_state.county_selection
    /\ PassWithoutRun(selected_species, show_monthly, compare_counties,
                      Some(pick))

----------------------------------------------------------------------------
(* Run Analysis *)

\* What get_taxon_key and fetch_occurrences_for_taxon do in one run:
\* one of them raises, or the fetch returns rows.
Raised(by, error) == [raised_by |-> by, error |-> error, rows |-> EmptyBag]
Fetched(rows) == [raised_by |-> "", error |-> "", rows |-> rows]

FetchOutcomes ==
    {Raised("get_taxon_key", "no taxon match"),
     Raised("fetch_occurrences_for_taxon", "network error")}
    \cup {Fetched(rows) : rows \in FetchResults}

CallsOf(outcome) ==
    IF outcome.raised_by = "get_taxon_key"
    THEN <<"get_taxon_key">>
    ELSE <<"get_taxon_key", "fetch_occurrences_for_taxon">>

\* the line of the two selected counties' scores, when comparing
ScoreMessages(compare, selection) ==
    IF Comparing(compare, selection)
    THEN <<Msg("markdown.scores", "", "", 0)>>
    ELSE <<>>

\* except Exception as e: ... st.stop()
FetchFailed(outcome) == outcome.raised_by # ""

\* the run without its check for an empty frame
NeverEmpty(df) == FALSE

\* df_occ.empty
IsEmpty(df) == df = EmptyBag

\* the run without the assignment to st.session_state.gdf_joined
StoreNothing(ss, joined) == ss

\* st.session_state.gdf_joined = gdf_joined
StoreSnapshot(ss, joined) == [ss EXCEPT !.gdf_joined = Some(joined)]

\* The pass in which the Run Analysis button is pressed.
Run(outcome) ==
    LET ss  == SidebarState(compare_counties, session_state, None)
        sel == SidebarSelection(compare_counties, session_state, None)
        df  == Clean(outcome.rows, selected_species)
        joined == assign_to_counties(df)
        cc  == CountyCounts(joined)
        head == SidebarMessages(compare_counties, session_state)
                    \o <<Msg("info.fetching", "", "", 0)>>
    IN
    /\ status # "widget_error"
    /\ ~SelectorRaises(compare_counties, session_state)
    /\ Sidebar(selected_species, show_monthly, compare_counties, None)
    /\ calls' = CallsOf(outcome)
    /\ IF FetchFailed(outcome)
       THEN \* st.error(...); st.stop()
            /\ status' = "fetch_error"
            /\ messages' = head \o
                   <<Msg("error", selected_species, outcome.error, 0)>>
            /\ session_state' = ss
            /\ NoOutputs
       ELSE IF IsEmpty(outcome.rows)
       THEN \* st.warning(...); st.stop()
            /\ status' = "empty"
            /\ messages' = head \o <<Msg("warning", "", "", 0)>>
            /\ session_state' = ss
            /\ NoOutputs
       ELSE /\ status' = "done"
            /\ session_state' = StoreSnapshot(ss, joined)
            /\ df_occ' = Some(df)
            /\ gdf_joined' = Some(joined)
            /\ county_counts' = Some(cc)
            /\ messages' = head \o ScoreMessages(compare_counties, sel)
                                \o <<Msg("success", "", "", Rows(df))>>
            /\ merged' = Some(Merged(cc))
            /\ monthly_counts' =
                   IF show_monthly
                   THEN Some(MonthlyCounts(df, joined, compare_counties, sel))
                   ELSE None
            /\ annual_counts' =
                   Some(AnnualCounts(df, joined, compare_counties, sel))

\* The button is pressed while the stored selection is no longer among the
\* options: the selector raises before the script reaches the button.
RunBlocked ==
    /\ status # "widget_error"
    /\ SelectorRaises(compare_counties, session_state)
    /\ PassWithoutRun(selected_species, show_monthly, compare_counties, None)

RunAnalysis == \E outcome \in FetchOutcomes : Run(outcome)

\* a run of the scoring specification
RunScoring == \E rows \in ScoreFetchResults : Run(Fetched(rows))

----------------------------------------------------------------------------
(* Specifications *)

Init ==
    /\ selected_species = DefaultSpecies
    /\ show_monthly = TRUE
    /\ compare_counties = FALSE
    /\ session_state = [gdf_joined |-> None, county_selection |-> {}]
    /\ county_options = None
    /\ county_selection = {}
    /\ status = "idle"
    /\ calls = <<>>
    /\ messages = <<>>
    /\ df_occ = None
    /\ gdf_joined = None
    /\ county_counts = None
    /\ merged = None
    /\ monthly_counts = None
    /\ annual_counts = None

Next ==
    \/ \E s \in species_list : SelectSpecies(s)
    \/ SlideYearRange
    \/ ToggleShowMonthly
    \/ ToggleCompareCounties
    \/ \E pick \in SUBSET CountyNames : SelectCounties(pick)
    \/ RunAnalysis
    \/ RunBlocked

Spec == Init /\ [][Next]_vars

\* The scoring specification: runs only, over larger fetches.
NextScore == RunScoring

SpecScore == Init /\ [][NextScore]_vars

----------------------------------------------------------------------------
(* What the claims speak of *)

RECURSIVE SumColumn(_, _)
\* the sum of the column named col over the rows of a table
SumColumn(table, col) ==
    IF table = {} THEN 0
    ELSE LET row == CHOOSE x \in table : TRUE
         IN  row[col] + SumColumn(table \ {row}, col)

\* a row has the largest occurrence count of its table
HasMaxCount(row, table) ==
    \A other \in table : other.occurrence_count <= row.occurrence_count

\* the last pass ran the pipeline to its end
RunCompleted == status = "done"

\* a table is bucketed by county: each row carries a county key
ByCounty(table) == \A row \in table : "NAME_2" \in DOMAIN row

\* a table is bucketed by species only: no row carries a county key
BySpeciesOnly(table) ==
    \A row \in table : /\ "NAME_2" \notin DOMAIN row
                       /\ "queried_scientificName" \in DOMAIN row

----------------------------------------------------------------------------
(* C1: every row of the aggregate table has a risk score between 0.0 and   *)
(* 1.0, and when the joined collection is not empty some row, one of the   *)
(* maximum count, has the risk score 1.0.                                  *)
RiskScoreBounds ==
    RunCompleted =>
        LET cc == Get(county_counts) IN
        /\ \A row \in cc : 0 <= row.RiskScore /\ row.RiskScore <= 100
        /\ Rows(Get(gdf_joined)) > 0 =>
               \E row \in cc : /\ row.RiskScore = 100
                               /\ HasMaxCount(row, cc)

\* a run whose aggregate has a row at 1.0 and a row strictly below it
RiskScoreBoundsWitness ==
    /\ RunCompleted
    /\ \E a, b \in Get(county_counts) :
           /\ a.RiskScore = 100
           /\ 0 < b.RiskScore /\ b.RiskScore < 100

(* C2: the occurrence counts of the aggregate rows add up to the number of *)
(* joined rows that have a county, which is the size of the join output.   *)
CountConservation ==
    RunCompleted =>
        LET joined == Get(gdf_joined) IN
        /\ SumColumn(Get(county_counts), "occurrence_count")
               = Rows(Filter(joined, {r \in DOMAIN joined :
                                          r.NAME_2 \in CountyNames}))
        /\ SumColumn(Get(county_counts), "occurrence_count") = Rows(joined)

\* a run with a group of two rows
CountConservationWitness ==
    /\ RunCompleted
    /\ \E row \in Get(county_counts) : row.occurrence_count >= 2

(* C3: the map table has one row for every county of the reference data;  *)
(* a county without occurrences is absent from the aggregate and has the   *)
(* count 0 and the risk score 0.0 in the map table, a county with          *)
(* occurrences keeps its aggregate row.                                    *)
MapTableFill ==
    RunCompleted =>
        LET cc == Get(county_counts)
            m  == Get(merged)
        IN  /\ {row.NAME_2 : row \in m} = CountyNames
            /\ Cardinality(m) = Cardinality(CountyNames)
            /\ \A row \in m :
                   IF \E r \in DOMAIN Get(gdf_joined) : r.NAME_2 = row.NAME_2
                   THEN /\ row \in cc
                        /\ row.occurrence_count > 0
                   ELSE /\ ~\E agg \in cc : agg.NAME_2 = row.NAME_2
                        /\ row.occurrence_count = 0
                        /\ row.RiskScore = 0

\* a run with an observed county and a filled one in the map table
MapTableFillWitness ==
    /\ RunCompleted
    /\ \E a, b \in Get(merged) :
           /\ a.occurrence_count > 0
           /\ b.occurrence_count = 0 /\ b.RiskScore = 0

(* C4: in a run with two counties selected for comparison, the monthly and *)
(* annual tables are bucketed by county and count exactly the joined rows  *)
(* of those two counties; otherwise they are bucketed by species only and  *)
(* count the rows of all counties.                                         *)
ComparisonRestriction ==
    RunCompleted =>
        LET tables == {Get(annual_counts)} \cup
                      (IF show_monthly THEN {Get(monthly_counts)} ELSE {})
            chosen == Filter(Get(gdf_joined),
                             {r \in DOMAIN Get(gdf_joined) :
                                  r.NAME_2 \in county_selection})
        IN  IF compare_counties /\ Cardinality(county_selection) = 2
            THEN \A t \in tables :
                     /\ ByCounty(t)
                     /\ \A row \in t : row.NAME_2 \in county_selection
                     /\ SumColumn(t, "count") = Rows(chosen)
            ELSE \A t \in tables :
                     /\ BySpeciesOnly(t)
                     /\ SumColumn(t, "count") = Rows(Get(df_occ))

\* a comparing run that has a joined row of a third county, left out of the
\* annual table, and a row of a selected county in it
ComparisonRestrictionWitness ==
    /\ RunCompleted
    /\ compare_counties
    /\ Cardinality(county_selection) = 2
    /\ \E r \in DOMAIN Get(gdf_joined) : r.NAME_2 \notin county_selection
    /\ Get(annual_counts) # {}
    /\ show_monthly /\ Get(monthly_counts) # {}

(* C5: the county comparison selection, the one a pass uses and the one    *)
(* stored in the session, holds at most two county names, each of them a   *)
(* county of the most recent joined dataset.                               *)
SelectionWithinSnapshot ==
    /\ Cardinality(county_selection) <= 2
    /\ Cardinality(session_state.county_selection) <= 2
    /\ ~IsNone(session_state.gdf_joined) =>
           /\ county_selection \subseteq CountyOptions(session_state)
           /\ session_state.county_selection \subseteq CountyOptions(session_state)
    /\ IsNone(session_state.gdf_joined) =>
           /\ county_selection = {}
           /\ session_state.county_selection = {}

(* C6: a run whose fetch raises, or returns no rows, halts: the user gets  *)
(* the error naming the species and the error, or the warning; each        *)
(* external call is made at most once; no table, map or chart is made.     *)
HaltingOutcomes ==
    {Raised("get_taxon_key", "no taxon match"),
     Raised("fetch_occurrences_for_taxon", "network error"),
     Fetched(EmptyBag)}

Halted(outcome) ==
    /\ df_occ' = None /\ gdf_joined' = None /\ county_counts' = None
    /\ merged' = None /\ monthly_counts' = None /\ annual_counts' = None
    /\ status' \in {"fetch_error", "empty"}
    /\ LET last == messages'[Len(messages')] IN
       IF outcome.raised_by # ""
       THEN last = Msg("error", selected_species, outcome.error, 0)
       ELSE last.kind = "warning"
    /\ \A i \in 1 .. Len(messages') :
           messages'[i].kind \notin {"success", "markdown.scores"}
    /\ \A i, j \in 1 .. Len(calls') : calls'[i] = calls'[j] => i = j

FetchFailureHalts ==
    [][\A outcome \in HaltingOutcomes : Run(outcome) => Halted(outcome)]_vars

\* a run after a completed one is halted by an error of the occurrence fetch
FetchFailureHaltsWitness ==
    /\ status = "fetch_error"
    /\ calls = <<"get_taxon_key", "fetch_occurrences_for_taxon">>
    /\ ~IsNone(session_state.gdf_joined)

(* C7: in a pass with comparison on and no snapshot stored, the user is    *)
(* prompted to run the analysis first, the selector is not built, the      *)
(* selection of the pass is empty, and a run of that pass makes its        *)
(* monthly and annual tables by species only.                              *)
NoSnapshotNoComparison ==
    [][(compare_counties' /\ IsNone(session_state.gdf_joined)) =>
          /\ messages' # <<>>
          /\ messages'[1].kind = "sidebar.info"
          /\ county_options' = None
          /\ county_selection' = {}
          /\ session_state'.county_selection = {}
          /\ status' = "done" =>
                 /\ BySpeciesOnly(Get(annual_counts'))
                 /\ show_monthly' => BySpeciesOnly(Get(monthly_counts'))
                 /\ \A i \in 1 .. Len(messages') :
                        messages'[i].kind # "markdown.scores"]_vars

\* the first run of a session, made with comparison on
NoSnapshotNoComparisonWitness ==
    /\ RunCompleted
    /\ compare_counties
    /\ county_options = None
    /\ Get(annual_counts) # {}

(* C8: the session state is the snapshot and the selection only; the      *)
(* stored snapshot is absent or the joined output of the last completed    *)
(* run; the next run overwrites both the snapshot and the selection, with  *)
(* its own joined output and its own selection.                            *)
RunOverwritesSession ==
    [][/\ DOMAIN session_state' = {"gdf_joined", "county_selection"}
       /\ status' # "done" =>
              session_state'.gdf_joined = session_state.gdf_joined
       /\ status' = "done" =>
              /\ session_state'.gdf_joined = gdf_joined'
              /\ session_state'.county_selection = county_selection']_vars

(* C8 as amended: the session state is the snapshot and the selection      *)
(* only; the stored snapshot is absent or the joined output of the last    *)
(* completed run, and the next completed run overwrites it; a run writes   *)
(* the stored selection only when its pass builds the county selector      *)
(* (comparison on, a snapshot stored), with the selector's value, and      *)
(* otherwise leaves the stored selection of the earlier passes as it was.  *)
RunOverwritesSnapshot ==
    [][/\ DOMAIN session_state' = {"gdf_joined", "county_selection"}
       /\ status' # "done" =>
              session_state'.gdf_joined = session_state.gdf_joined
       /\ status' = "done" =>
              /\ session_state'.gdf_joined = gdf_joined'
              /\ IF IsNone(county_options')
                 THEN session_state'.county_selection
                          = session_state.county_selection
                 ELSE session_state'.county_selection = county_selection']_vars

\* a completed run, made with comparison off, after which the session still
\* holds the selection of an earlier pass and the snapshot is this run's
RunOverwritesSnapshotWitness ==
    /\ RunCompleted
    /\ ~compare_counties
    /\ session_state.county_selection # {}
    /\ session_state.gdf_joined = gdf_joined

(* C9: of two rows of the aggregate table with the same species, the one   *)
(* with the strictly greater occurrence count has a rounded risk score     *)
(* that is not smaller.                                                    *)
RiskScoreMonotone ==
    RunCompleted =>
        \A a, b \in Get(county_counts) :
            (/\ a.queried_scientificName = b.queried_scientificName
             /\ a.occurrence_count > b.occurrence_count)
                => a.RiskScore >= b.RiskScore

\* an aggregate with three different counts and three different scores
RiskScoreMonotoneWitness ==
    /\ RunCompleted
    /\ \E a, b, c \in Get(county_counts) :
           /\ a.occurrence_count > b.occurrence_count
           /\ b.occurrence_count > c.occurrence_count
           /\ a.RiskScore > b.RiskScore
           /\ b.RiskScore > c.RiskScore

(* C10: a run that halts on a fetch failure or on an empty fetch leaves    *)
(* the session state, snapshot and selection, as it was before the run.    *)
HaltedRunKeepsSession ==
    [][status' \in {"fetch_error", "empty"} => session_state' = session_state]_vars

\* a halted run in a session that holds a snapshot and a selection, with
\* the selector built in the halted pass
HaltedRunKeepsSessionWitness ==
    /\ status = "empty"
    /\ compare_counties
    /\ ~IsNone(county_options)
    /\ session_state.county_selection # {}

====
